---- MODULE Spec2Model ----
(***************************************************************************)
(* A model of the popart POP3 session engine: one session (session.serve)  *)
(* talking to one peer and one backend Handler.  Every command-response    *)
(* interaction (session.serveOne) is one step.  The backend and the peer   *)
(* are the environment: every backend call may return success, a           *)
(* *ReportableError or any other error, and the connection may stop        *)
(* accepting writes at any write.                                          *)
(***************************************************************************)
EXTENDS Integers, Sequences, FiniteSets, TLC

(***************************************************************************)
(* Bounds of the model.                                                    *)
(***************************************************************************)
MaxMsgs == 2          \* largest message count the backend reports
MaxLines == 2         \* largest number of lines of a message content
MaxArgs == 2          \* largest number of arguments on a command line
MaxFailAt == 2        \* the connection may break at write 1..MaxFailAt of a command
MaxSessions == 3      \* connections the server accepts
MaxClock == 1         \* seconds the clock advances while the server runs

(***************************************************************************)
(* Session states (the iota block of the session file).                    *)
(***************************************************************************)
stateAuthorization == 0
stateTransaction == 1
stateUpdate == 2
stateTerminateConnection == 3

(***************************************************************************)
(* Errors.  An error value is <<kind, message>>; kind "reportable" is a    *)
(* *ReportableError, kind "other" is any other error, Nil is no error.     *)
(***************************************************************************)
Nil == <<"nil", "">>

NewReportableError(message) == <<"reportable", message>>

errInvalidSyntax == NewReportableError("invalid syntax")

errUnexpectedState == NewReportableError("unexpected state transition")

\* errors that do not come from this package
OtherError(message) == <<"other", message>>

\* what a backend method may return instead of success
BackendErrors == {NewReportableError("backend"), OtherError("backend")}

Outcomes == {Nil} \cup BackendErrors

(***************************************************************************)
(* Command lines.  A line is a verb and a sequence of argument tokens.     *)
(***************************************************************************)
NumStr == <<"0", "1", "2", "3", "4", "5", "6", "7", "8", "9">>

\* the decimal numerals of 0..MaxMsgs+1 and a non-numeric token
Tokens == {NumStr[i] : i \in 1..(MaxMsgs + 2)} \cup {"x"}

\* the names a peer gives with USER: a name and the empty name of "USER "
NameTokens == {"x", ""}

\* argument lists of a wrong length, their content is never looked at
FillerArgs(arities) == {[i \in 1..n |-> "x"] : n \in (0..(MaxArgs + 1)) \ arities}

\* strconv.ParseUint(s, 10, 64): a value, or an error for a non-numeral
ParseUint(s) ==
  IF \E i \in 1..Len(NumStr) : NumStr[i] = s
  THEN [err |-> Nil, val |-> (CHOOSE i \in 1..Len(NumStr) : NumStr[i] = s) - 1]
  ELSE [err |-> OtherError("strconv"), val |-> 0]

(***************************************************************************)
(* Lines on the wire and backend calls, as observed during one command.    *)
(***************************************************************************)
Line(tag, msg, nums, txt) == [tag |-> tag, msg |-> msg, nums |-> nums, txt |-> txt]

CallRec(name, arg, err) == [name |-> name, arg |-> arg, err |-> err]

\* the result of a step of a handler: the session after it and its error
Ret(c, err) == [c |-> c, err |-> err]

\* a backend method is invoked with arg and returns err
Call(c, name, arg, err) == [c EXCEPT !.calls = Append(@, CallRec(name, arg, err))]

HandleSessionError(c, err) == Call(c, "HandleSessionError", <<>>, err)

(***************************************************************************)
(* The buffered writer.  A write fails when the connection is already      *)
(* down or when it is the failAt-th write of this command (failAt = 0:     *)
(* never); a failed write leaves the connection down (bufio.Writer keeps   *)
(* its first error).                                                       *)
(***************************************************************************)
WriteFails(c) == \/ ~c.up
                 \/ c.failAt /= 0 /\ c.written + 1 >= c.failAt

Wr(c, line) ==
  IF WriteFails(c)
  THEN Ret([c EXCEPT !.up = FALSE, !.written = @ + 1], OtherError("write"))
  ELSE Ret([c EXCEPT !.out = Append(@, line), !.written = @ + 1], Nil)

\* textproto.Writer.PrintfLine
PrintfLine(c, tag, msg, nums, txt) == Wr(c, Line(tag, msg, nums, txt))

respondOK(c, msg, nums, txt) == PrintfLine(c, "+OK", msg, nums, txt)

\* dot-stuffing of textproto's DotWriter: a line starting with "." gets one more
Stuff(txt) == IF Len(txt) > 0 /\ txt[1] = "." THEN <<".">> \o txt ELSE txt

DotWrite(c, nums, txt) == Wr(c, Line("data", "", nums, Stuff(txt)))

\* DotWriter.Close writes the terminating line and flushes
DotClose(c) == Wr(c, Line(".", "", <<>>, <<".">>))

closeOrReport(c, closeErr) ==
  IF closeErr /= Nil THEN HandleSessionError(c, closeErr) ELSE c

\* defer s.closeOrReport(dotWriter)
closeDotWriter(c) == LET w == DotClose(c) IN closeOrReport(w.c, w.err)

(***************************************************************************)
(* handleError: what the read loop does with the outcome of a command.     *)
(***************************************************************************)
\* a type assertion that takes every error for a *ReportableError
isReportable_always(err) == TRUE

\* err.(*ReportableError)
isReportable(err) == err[1] = "reportable"

\* a handleError that reports a fatal error and leaves the state alone
handleError_noTerminate(c, err, shouldContinue) ==
  IF err = Nil THEN [c |-> c, keepGoing |-> shouldContinue]
  ELSE LET c0 == [c EXCEPT !.herr = err]
           w == IF isReportable(err)
                THEN PrintfLine(c0, "-ERR", err[2], <<>>, <<>>)
                ELSE Ret(c0, err)
       IN IF isReportable(err) /\ w.err = Nil
          THEN [c |-> w.c, keepGoing |-> shouldContinue]
          ELSE [c |-> HandleSessionError(w.c, w.err), keepGoing |-> shouldContinue]

\* herr keeps the error handleError was called with
handleError(c, err, shouldContinue) ==
  IF err = Nil THEN [c |-> c, keepGoing |-> shouldContinue]
  ELSE LET c0 == [c EXCEPT !.herr = err]
           w == IF isReportable(err)
                THEN PrintfLine(c0, "-ERR", err[2], <<>>, <<>>)
                ELSE Ret(c0, err)
       IN IF isReportable(err) /\ w.err = Nil
          THEN [c |-> w.c, keepGoing |-> shouldContinue]
          ELSE [c |-> HandleSessionError(
                        [w.c EXCEPT !.state = stateTerminateConnection], w.err),
                keepGoing |-> shouldContinue]

(***************************************************************************)
(* Validators.                                                             *)
(***************************************************************************)
validates(states, arities) == [allowedStates |-> states, allowedArities |-> arities]

\* a table that lets NOOP through in the Update state
validators_noopInUpdate ==
  [APOP |-> validates({stateAuthorization}, {2}),
   DELE |-> validates({stateTransaction}, {1}),
   LIST |-> validates({stateTransaction}, {0, 1}),
   NOOP |-> validates({stateTransaction, stateUpdate}, {0}),
   PASS |-> validates({stateAuthorization}, {1}),
   QUIT |-> validates({stateAuthorization, stateTransaction}, {0}),
   RETR |-> validates({stateTransaction}, {1}),
   RSET |-> validates({stateTransaction}, {0}),
   STAT |-> validates({stateTransaction}, {0}),
   TOP  |-> validates({stateTransaction}, {2}),
   UIDL |-> validates({stateTransaction}, {0, 1}),
   USER |-> validates({stateAuthorization}, {1})]

\* a table that lets USER, PASS and APOP through in the Transaction state
validators_reauth ==
  [APOP |-> validates({stateAuthorization, stateTransaction}, {2}),
   DELE |-> validates({stateTransaction}, {1}),
   LIST |-> validates({stateTransaction}, {0, 1}),
   NOOP |-> validates({stateTransaction}, {0}),
   PASS |-> validates({stateAuthorization, stateTransaction}, {1}),
   QUIT |-> validates({stateAuthorization, stateTransaction}, {0}),
   RETR |-> validates({stateTransaction}, {1}),
   RSET |-> validates({stateTransaction}, {0}),
   STAT |-> validates({stateTransaction}, {0}),
   TOP  |-> validates({stateTransaction}, {2}),
   UIDL |-> validates({stateTransaction}, {0, 1}),
   USER |-> validates({stateAuthorization, stateTransaction}, {1})]

validators ==
  [APOP |-> validates({stateAuthorization}, {2}),
   DELE |-> validates({stateTransaction}, {1}),
   LIST |-> validates({stateTransaction}, {0, 1}),
   NOOP |-> validates({stateTransaction}, {0}),
   PASS |-> validates({stateAuthorization}, {1}),
   QUIT |-> validates({stateAuthorization, stateTransaction}, {0}),
   RETR |-> validates({stateTransaction}, {1}),
   RSET |-> validates({stateTransaction}, {0}),
   STAT |-> validates({stateTransaction}, {0}),
   TOP  |-> validates({stateTransaction}, {2}),
   UIDL |-> validates({stateTransaction}, {0, 1}),
   USER |-> validates({stateAuthorization}, {1})]

\* a state check that lets every state through
allowedState_any(v, c) == Nil

allowedState(v, c) == IF c.state \in v.allowedStates THEN Nil ELSE errUnexpectedState

allowedArity(v, args) == IF Len(args) \in v.allowedArities THEN Nil ELSE errInvalidSyntax

\* a validate that looks at the argument count first
validate_arityFirst(v, c, args) ==
  IF allowedArity(v, args) /= Nil THEN allowedArity(v, args) ELSE allowedState(v, c)

validate(v, c, args) ==
  IF allowedState(v, c) /= Nil THEN allowedState(v, c) ELSE allowedArity(v, args)

\* the verbs the peer may send that have no validator
UnknownVerbs == {"CAPA", "FOO", ""}

(***************************************************************************)
(* Message contents handed out by GetMessageReader.  A content is a        *)
(* sequence of lines, a line a sequence of tokens; the empty line ends the *)
(* header.  A reader delivers its lines and then end-of-file, or a read    *)
(* error when fail is set; its Close may fail.                             *)
(***************************************************************************)
ContentLines == {<<"h">>, <<>>, <<".", "b">>}

Contents == UNION {[1..n -> ContentLines] : n \in 0..MaxLines}

\* GetMessageReader fails, or returns a reader that works, or a reader of a
\* short content that fails to read on or to close
ReaderResults ==
  {[err |-> e, lines |-> <<>>, fail |-> FALSE, closeErr |-> Nil] : e \in BackendErrors}
  \cup [err : {Nil}, lines : Contents, fail : {FALSE}, closeErr : {Nil}]
  \cup [err : {Nil}, lines : {l \in Contents : Len(l) <= 1}, fail : BOOLEAN,
        closeErr : {Nil, OtherError("close")}]

\* defer s.closeOrReport(readCloser)
closeReader(c, rd) ==
  closeOrReport(Call(c, "Reader.Close", <<>>, rd.closeErr), rd.closeErr)

(***************************************************************************)
(* The maildrop snapshot.                                                  *)
(***************************************************************************)
\* a Go map read: the zero value for a missing key
MapGet(m, k) == IF k \in DOMAIN m THEN m[k] ELSE 0

MapPut(m, k, v) == [x \in DOMAIN m \cup {k} |-> IF x = k THEN v ELSE m[x]]

RECURSIVE SumSizes(_, _)
SumSizes(m, keys) ==
  IF keys = {} THEN 0
  ELSE LET k == CHOOSE x \in keys : TRUE IN m[k] + SumSizes(m, keys \ {k})

\* a count that forgets the deleted set
getMessageCount_all(c) == Cardinality(DOMAIN c.msgSizes)

getMessageCount(c) == Cardinality(DOMAIN c.msgSizes) - Cardinality(c.markedDeleted)

getMaildropSize(c) == SumSizes(c.msgSizes, DOMAIN c.msgSizes \ c.markedDeleted)

\* a fetch that keys the snapshot from 0
RECURSIVE fetchSizes_zeroBased(_, _, _, _)
fetchSizes_zeroBased(c, msgCount, sizeR, i) ==
  IF i >= msgCount THEN Ret(c, Nil)
  ELSE LET r == sizeR[i + 1]
           c1 == Call(c, "GetMessageSize", <<i + 1>>, r.err)
       IN IF r.err /= Nil THEN Ret(c1, r.err)
          ELSE fetchSizes_zeroBased([c1 EXCEPT !.msgSizes = MapPut(@, i, r.val)],
                                    msgCount, sizeR, i + 1)

RECURSIVE fetchSizes(_, _, _, _)
fetchSizes(c, msgCount, sizeR, i) ==
  IF i >= msgCount THEN Ret(c, Nil)
  ELSE LET r == sizeR[i + 1]
           c1 == Call(c, "GetMessageSize", <<i + 1>>, r.err)
       IN IF r.err /= Nil THEN Ret(c1, r.err)
          ELSE fetchSizes([c1 EXCEPT !.msgSizes = MapPut(@, i + 1, r.val)],
                          msgCount, sizeR, i + 1)

fetchMaildropStats(c, countR, sizeR) ==
  LET c1 == Call(c, "GetMessageCount", <<>>, countR.err)
  IN IF countR.err /= Nil THEN Ret(c1, countR.err)
     ELSE fetchSizes(c1, countR.val, sizeR, 0)

signIn(c, lockR, countR, sizeR) ==
  LET c1 == Call(c, "LockMaildrop", <<>>, lockR)
  IN IF lockR /= Nil THEN Ret(c1, lockR)
     ELSE LET f == fetchMaildropStats([c1 EXCEPT !.state = stateTransaction],
                                      countR, sizeR)
          IN IF f.err /= Nil THEN f
             ELSE respondOK(f.c, "maildrop has",
                            <<getMessageCount(f.c), getMaildropSize(f.c)>>,
                            <<f.c.username>>)

\* a line of a bulk listing: the calls fn made, its error, and the line
FnLine(calls, err, nums, txt) == [calls |-> calls, err |-> err, nums |-> nums, txt |-> txt]

RECURSIVE forEachLoop(_, _, _)
forEachLoop(c, fn, i) ==
  IF i >= Cardinality(DOMAIN c.msgSizes) THEN Ret(c, Nil)
  ELSE IF (i + 1) \in c.markedDeleted THEN forEachLoop(c, fn, i + 1)
  ELSE LET r == fn[i + 1]
           c1 == [c EXCEPT !.calls = @ \o r.calls]
       IN IF r.err /= Nil THEN Ret(c1, r.err)
          ELSE LET w == DotWrite(c1, r.nums, r.txt)
               IN IF w.err /= Nil THEN w ELSE forEachLoop(w.c, fn, i + 1)

forEachMessage(c, fn) ==
  LET r == forEachLoop(c, fn, 0) IN Ret(closeDotWriter(r.c), r.err)

\* a check of the deleted set that never finds the message
msgGone_never(c, msgID) == FALSE

msgGone(c, msgID) == msgID \in c.markedDeleted

noSuchMessage(c, msgID) == msgID = 0 \/ msgID > Cardinality(DOMAIN c.msgSizes)

\* withMessageDo up to the call of fn: the error it returns instead, or the
\* message number it calls fn with
withMessageDo(c, sID) ==
  LET p == ParseUint(sID)
  IN IF p.err /= Nil THEN [err |-> errInvalidSyntax, msgID |-> 0]
     ELSE IF noSuchMessage(c, p.val)
          THEN [err |-> NewReportableError("no such message"), msgID |-> p.val]
     ELSE IF msgGone(c, p.val)
          THEN [err |-> NewReportableError("already deleted"), msgID |-> p.val]
     ELSE [err |-> Nil, msgID |-> p.val]

(***************************************************************************)
(* Command handlers.                                                       *)
(***************************************************************************)
\* an APOP that does not look at Server.APOP
handleAPOP_always(c, args, authR, lockR, countR, sizeR) ==
  LET c1 == Call(c, "AuthenticateAPOP", <<>>, authR)
  IN IF authR /= Nil THEN Ret(c1, authR)
     ELSE signIn(c1, lockR, countR, sizeR)

handleAPOP(c, args, authR, lockR, countR, sizeR) ==
  IF ~c.apop THEN Ret(c, NewReportableError("server does not support APOP"))
  ELSE LET c1 == Call(c, "AuthenticateAPOP", <<>>, authR)
       IN IF authR /= Nil THEN Ret(c1, authR)
          ELSE signIn(c1, lockR, countR, sizeR)

\* a DELE that deletes at once instead of marking
handleDELE_eager(c, args) ==
  LET m == withMessageDo(c, args[1])
  IN IF m.err /= Nil THEN Ret(c, m.err)
     ELSE respondOK(Call(c, "DeleteMessages", <<m.msgID>>, Nil),
                    "deleted", <<m.msgID>>, <<>>)

handleDELE(c, args) ==
  LET m == withMessageDo(c, args[1])
  IN IF m.err /= Nil THEN Ret(c, m.err)
     ELSE respondOK([c EXCEPT !.markedDeleted = @ \cup {m.msgID}],
                    "deleted", <<m.msgID>>, <<>>)

\* a listing that numbers the messages from 0
listLine_zeroBased(c, msgId) ==
  FnLine(<<>>, Nil, <<msgId - 1, MapGet(c.msgSizes, msgId)>>, <<>>)

listLine(c, msgId) == FnLine(<<>>, Nil, <<msgId, MapGet(c.msgSizes, msgId)>>, <<>>)

handleLIST(c, args) ==
  IF Len(args) = 1
  THEN LET m == withMessageDo(c, args[1])
       IN IF m.err /= Nil THEN Ret(c, m.err)
          ELSE respondOK(c, "list", <<m.msgID, MapGet(c.msgSizes, m.msgID)>>, <<>>)
  ELSE forEachMessage(c, [msgId \in 1..Cardinality(DOMAIN c.msgSizes) |-> listLine(c, msgId)])

handleNOOP(c, args) == respondOK(c, "doing nothing", <<>>, <<>>)

\* a PASS that does not ask for a username
handlePASS_noUser(c, args, authR, lockR, countR, sizeR) ==
  LET c1 == Call(c, "AuthenticatePASS", <<>>, authR)
  IN IF authR /= Nil THEN Ret(c1, authR)
     ELSE signIn(c1, lockR, countR, sizeR)

handlePASS(c, args, authR, lockR, countR, sizeR) ==
  IF c.username = "" THEN Ret(c, NewReportableError("please provide username first"))
  ELSE LET c1 == Call(c, "AuthenticatePASS", <<>>, authR)
       IN IF authR /= Nil THEN Ret(c1, authR)
          ELSE signIn(c1, lockR, countR, sizeR)

\* a bye that puts the session back into Authorization
bye_toAuthorization(c) == respondOK([c EXCEPT !.state = stateAuthorization], "signing off", <<>>, <<>>)

bye(c) == respondOK([c EXCEPT !.state = stateTerminateConnection], "signing off", <<>>, <<>>)

\* a QUIT that does not enter the Update state
handleQUIT_noUpdate(c, args, delMsg, delR) ==
  IF c.state = stateAuthorization THEN bye(c)
  ELSE LET c1 == Call(c, "DeleteMessages", delMsg, delR)
       IN IF delR /= Nil THEN Ret(c1, delR) ELSE bye(c1)

\* delMsg is the slice built by ranging over markedDeleted, in map order
handleQUIT(c, args, delMsg, delR) ==
  IF c.state = stateAuthorization THEN bye(c)
  ELSE LET c1 == Call([c EXCEPT !.state = stateUpdate], "DeleteMessages", delMsg, delR)
       IN IF delR /= Nil THEN Ret(c1, delR) ELSE bye(c1)

RECURSIVE copyLines(_, _, _)
copyLines(c, lines, i) ==
  IF i > Len(lines) THEN Ret(c, Nil)
  ELSE LET w == DotWrite(c, <<>>, lines[i])
       IN IF w.err /= Nil THEN w ELSE copyLines(w.c, lines, i + 1)

\* io.Copy(dotWriter, readCloser)
ioCopy(c, rd) ==
  LET r == copyLines(c, rd.lines, 1)
  IN IF r.err /= Nil THEN r
     ELSE IF rd.fail THEN Ret(r.c, OtherError("read")) ELSE r

\* a RETR that closes the reader only after a complete copy
handleRETR_leak(c, args, rd) ==
  LET m == withMessageDo(c, args[1])
      w == respondOK(c, "octets", <<MapGet(c.msgSizes, m.msgID)>>, <<>>)
      c1 == Call(w.c, "GetMessageReader", <<m.msgID>>, rd.err)
      r == ioCopy(c1, rd)
  IN IF m.err /= Nil THEN Ret(c, m.err)
     ELSE IF w.err /= Nil THEN w
     ELSE IF rd.err /= Nil THEN Ret(c1, rd.err)
     ELSE IF r.err /= Nil THEN Ret(closeDotWriter(r.c), r.err)
     ELSE Ret(closeReader(closeDotWriter(r.c), rd), r.err)

handleRETR(c, args, rd) ==
  LET m == withMessageDo(c, args[1])
      w == respondOK(c, "octets", <<MapGet(c.msgSizes, m.msgID)>>, <<>>)
      c1 == Call(w.c, "GetMessageReader", <<m.msgID>>, rd.err)
      r == ioCopy(c1, rd)
  IN IF m.err /= Nil THEN Ret(c, m.err)
     ELSE IF w.err /= Nil THEN w
     ELSE IF rd.err /= Nil THEN Ret(c1, rd.err)
     ELSE Ret(closeReader(closeDotWriter(r.c), rd), r.err)

\* an RSET that leaves the deleted set alone
handleRSET_keep(c, args) ==
  respondOK(c, "maildrop has", <<getMessageCount(c), getMaildropSize(c)>>, <<>>)

handleRSET(c, args) ==
  LET c1 == [c EXCEPT !.markedDeleted = {}]
  IN respondOK(c1, "maildrop has", <<getMessageCount(c1), getMaildropSize(c1)>>, <<>>)

handleSTAT(c, args) ==
  respondOK(c, "stat", <<getMessageCount(c), getMaildropSize(c)>>, <<>>)

\* one ReadLineBytes of the content followed by printTopLine
printTopLine(c, rd, i) ==
  IF i <= Len(rd.lines)
  THEN DotWrite(c, <<>>, rd.lines[i])
  ELSE IF rd.fail THEN Ret(c, OtherError("read"))
  ELSE Ret(c, OtherError("EOF"))

RECURSIVE topLoop(_, _, _, _)
topLoop(c, rd, noLines, i) ==
  IF i >= noLines THEN Ret(c, Nil)
  ELSE LET r == printTopLine(c, rd, i + 1)
       IN IF r.err /= Nil THEN r ELSE topLoop(r.c, rd, noLines, i + 1)

handleTOP(c, args, rd) ==
  LET m == withMessageDo(c, args[1])
      noLines == ParseUint(args[2])
      w == PrintfLine(c, "+OK", "", <<>>, <<>>)
      c1 == Call(w.c, "GetMessageReader", <<m.msgID>>, rd.err)
      r == topLoop(c1, rd, noLines.val, 0)
  IN IF m.err /= Nil THEN Ret(c, m.err)
     ELSE IF noLines.err /= Nil THEN Ret(c, errInvalidSyntax)
     ELSE IF w.err /= Nil THEN w
     ELSE IF rd.err /= Nil THEN Ret(c1, rd.err)
     ELSE Ret(closeReader(closeDotWriter(r.c), rd), r.err)

\* GetMessageID returns an identifier or an error
uidlLine(idR, msgId) ==
  FnLine(<<CallRec("GetMessageID", <<msgId>>, idR[msgId].err)>>, idR[msgId].err,
         <<msgId>>, <<idR[msgId].val>>)

handleUIDL(c, args, idR) ==
  IF Len(args) = 1
  THEN LET m == withMessageDo(c, args[1])
           c1 == Call(c, "GetMessageID", <<m.msgID>>, idR[m.msgID].err)
       IN IF m.err /= Nil THEN Ret(c, m.err)
          ELSE IF idR[m.msgID].err /= Nil THEN Ret(c1, idR[m.msgID].err)
          ELSE respondOK(c1, "uidl", <<m.msgID>>, <<idR[m.msgID].val>>)
  ELSE forEachMessage(c, [msgId \in 1..Cardinality(DOMAIN c.msgSizes) |-> uidlLine(idR, msgId)])

handleUSER(c, args) ==
  respondOK([c EXCEPT !.username = args[1]], "welcome", <<>>, <<args[1]>>)

\* an unlock that releases only a session still in Transaction
unlock_inTransaction(c, unlockR) ==
  IF c.state /= stateTransaction THEN c
  ELSE LET c1 == Call(c, "UnlockMaildrop", <<>>, unlockR)
       IN IF unlockR /= Nil THEN HandleSessionError(c1, unlockR) ELSE c1

\* unlock: the deferred release of the maildrop lock
unlock(c, unlockR) ==
  IF c.state = stateAuthorization THEN c
  ELSE LET c1 == Call(c, "UnlockMaildrop", <<>>, unlockR)
       IN IF unlockR /= Nil THEN HandleSessionError(c1, unlockR) ELSE c1

(***************************************************************************)
(* State.  The first four variables are the fields of the session struct,  *)
(* connUp is the state of its writer, apop is Server.APOP and pc is the    *)
(* position of serve.  last, out and calls observe the command served      *)
(* last: its line and the state it met, the lines written and the backend  *)
(* calls made for it, handled whether serveOne called its handler, herr    *)
(* the error handleError was called with.  The remaining variables are     *)
(* history: fetchFailed whether a snapshot fetch of the session failed,    *)
(* bannerCalls the number of SetBanner calls of the session.               *)
(***************************************************************************)
VARIABLES state, username, markedDeleted, msgSizes, connUp, apop, pc,
          last, out, calls, handled, herr, fetchFailed, bannerCalls,
          lockOk, unlockCount, deleteCount, signedIn, signInStat, hDeleted, prev

\* The sessions of one Server on one maildrop: sessions is the session of each
\* accepted connection, maildropLocked the lock the backend keeps for the
\* maildrop, now the clock in seconds.
VARIABLES sessions, maildropLocked, now

serverVars == <<sessions, maildropLocked, now>>

vars == <<state, username, markedDeleted, msgSizes, connUp, apop, pc,
          last, out, calls, handled, herr, fetchFailed, bannerCalls,
          lockOk, unlockCount, deleteCount, signedIn, signInStat, hDeleted, prev,
          sessions, maildropLocked, now>>

\* the variables of the single session
sessionVars == <<state, username, markedDeleted, msgSizes, connUp, apop, pc,
                 last, out, calls, handled, herr, fetchFailed, bannerCalls,
                 lockOk, unlockCount, deleteCount, signedIn, signInStat, hDeleted, prev>>

NoBanner == <<>>

\* a connection not accepted yet
NoSession == [pc |-> "idle", state |-> stateAuthorization, username |-> "",
              banner |-> NoBanner]

\* the size the backend reports for a message, a different one for each
SizeValues(i) == {100 * i}

UidValues == {"u"}

FailAts == 0..MaxFailAt

NoReader == [err |-> Nil, lines |-> <<>>, fail |-> FALSE, closeErr |-> Nil]

\* a command line, the session it meets and the reader the backend has for it
CmdRd(verb, args, rd) ==
  [verb |-> verb, args |-> args, stateBefore |-> state, delBefore |-> markedDeleted,
   histBefore |-> hDeleted, rd |-> rd]

Cmd(verb, args) == CmdRd(verb, args, NoReader)

NoCmd == [verb |-> "-", args |-> <<>>, stateBefore |-> stateAuthorization,
          delBefore |-> {}, histBefore |-> {}, rd |-> NoReader]

NoPrev == [rset |-> FALSE, cleared |-> {}]

\* newSession
Init ==
  /\ state = stateAuthorization
  /\ username = ""
  /\ markedDeleted = {}
  /\ msgSizes = <<>>
  /\ connUp = TRUE
  /\ apop \in BOOLEAN
  /\ pc = "start"
  /\ last = NoCmd
  /\ out = <<>>
  /\ calls = <<>>
  /\ handled = FALSE
  /\ herr = Nil
  /\ fetchFailed = FALSE
  /\ bannerCalls = 0
  /\ lockOk = 0
  /\ unlockCount = 0
  /\ deleteCount = 0
  /\ signedIn = FALSE
  /\ signInStat = <<0, 0>>
  /\ hDeleted = {}
  /\ prev = NoPrev
  /\ sessions = [j \in 1..MaxSessions |-> NoSession]
  /\ maildropLocked = FALSE
  /\ now = 0

\* the session as a command meets it
Ctx(failAt) ==
  [state |-> state, username |-> username, markedDeleted |-> markedDeleted,
   msgSizes |-> msgSizes, up |-> connUp, apop |-> apop,
   failAt |-> failAt, written |-> 0, out |-> <<>>, calls |-> <<>>,
   handled |-> FALSE, herr |-> Nil]

CountCalls(cs, name, errs) ==
  Cardinality({i \in 1..Len(cs) : cs[i].name = name /\ cs[i].err \in errs})

AnsweredOK(o) == Len(o) > 0 /\ o[1].tag = "+OK"

\* the variables after serveOne or serve has run to the session c
Finish(c, cmd, nextPc) ==
  /\ state' = c.state
  /\ username' = c.username
  /\ markedDeleted' = c.markedDeleted
  /\ msgSizes' = c.msgSizes
  /\ connUp' = c.up
  /\ apop' = apop
  /\ pc' = nextPc
  /\ last' = cmd
  /\ out' = c.out
  /\ calls' = c.calls
  /\ handled' = c.handled
  /\ herr' = c.herr
  /\ fetchFailed' = (fetchFailed
                      \/ CountCalls(c.calls, "GetMessageCount", BackendErrors) > 0
                      \/ CountCalls(c.calls, "GetMessageSize", BackendErrors) > 0)
  /\ bannerCalls' = bannerCalls + CountCalls(c.calls, "SetBanner", Outcomes)
  /\ lockOk' = lockOk + CountCalls(c.calls, "LockMaildrop", {Nil})
  /\ unlockCount' = unlockCount + CountCalls(c.calls, "UnlockMaildrop", Outcomes)
  /\ deleteCount' = deleteCount + CountCalls(c.calls, "DeleteMessages", Outcomes)
  /\ signedIn' = (signedIn \/ (cmd.verb \in {"PASS", "APOP"} /\ AnsweredOK(c.out)))
  /\ signInStat' = IF cmd.verb \in {"PASS", "APOP"} /\ AnsweredOK(c.out)
                   THEN c.out[1].nums ELSE signInStat
  /\ hDeleted' = IF cmd.verb = "RSET" /\ AnsweredOK(c.out)
                 THEN {}
                 ELSE IF cmd.verb = "DELE" /\ AnsweredOK(c.out)
                      THEN hDeleted \cup {c.out[1].nums[1]} ELSE hDeleted
  /\ prev' = prev
  /\ UNCHANGED serverVars

\* serve returns: the deferred unlock runs, then the deferred conn.Close
serveReturn(c, cmd) == \E unlockR \in Outcomes : Finish(unlock(c, unlockR), cmd, "done")

\* serveOne from the lookup of the validator on; r is what the handler of
\* the command does to the session c and returns
serveOne(c, command, args, r) ==
  IF command \notin DOMAIN validators THEN handleError(c, errInvalidSyntax, TRUE)
  ELSE IF validate(validators[command], c, args) /= Nil
       THEN handleError(c, validate(validators[command], c, args), TRUE)
       ELSE handleError([r.c EXCEPT !.handled = TRUE], r.err, TRUE)

Accepted(command, args) == validate(validators[command], Ctx(0), args) = Nil

Reading == pc = "read" /\ state /= stateTerminateConnection

\* serveOne has returned true
Responded(res, cmd) == Finish(res.c, cmd, "responded")

(***************************************************************************)
(* serve up to the read loop: SetBanner and the greeting.                  *)
(***************************************************************************)
serve ==
  /\ pc = "start"
  /\ \E failAt \in {0, 1}, bannerR \in Outcomes :
       LET c0 == Ctx(failAt)
           c1 == IF apop THEN Call(c0, "SetBanner", <<>>, bannerR) ELSE c0
           w == respondOK(c1, "POP3 server ready", <<>>, <<>>)
       IN IF apop /\ bannerR /= Nil
          THEN serveReturn(HandleSessionError(c1, bannerR), Cmd("-greeting", <<>>))
          ELSE IF w.err /= Nil
               THEN serveReturn(HandleSessionError(w.c, w.err), Cmd("-greeting", <<>>))
               ELSE Finish(w.c, Cmd("-greeting", <<>>), "read")

\* the loop of serve calls serveOne again
serveLoop ==
  /\ pc = "responded"
  /\ pc' = "read"
  /\ last' = NoCmd
  /\ out' = <<>>
  /\ calls' = <<>>
  /\ handled' = FALSE
  /\ herr' = Nil
  /\ prev' = IF last.verb = "RSET" /\ AnsweredOK(out)
             THEN [rset |-> TRUE, cleared |-> last.histBefore] ELSE NoPrev
  /\ UNCHANGED serverVars
  /\ UNCHANGED <<state, username, markedDeleted, msgSizes, connUp, apop, fetchFailed,
                 bannerCalls, lockOk, unlockCount, deleteCount, signedIn, signInStat, hDeleted>>

\* serveOne finds the session terminated
serveOneTerminated ==
  /\ pc = "read"
  /\ state = stateTerminateConnection
  /\ serveReturn(Ctx(0), Cmd("-exit", <<>>))

\* SetReadDeadline or ReadLine fails: deadline passed, connection lost
serveOneReadError ==
  /\ Reading
  /\ \E err \in {OtherError("deadline"), OtherError("read")} :
       serveReturn(handleError(Ctx(0), err, FALSE).c, Cmd("-read error", <<>>))

serveOneUnknown ==
  /\ Reading
  /\ \E verb \in UnknownVerbs, args \in FillerArgs({}), failAt \in FailAts :
       LET c == Ctx(failAt)
       IN Responded(serveOne(c, verb, args, Ret(c, Nil)), Cmd(verb, args))

serveUSER ==
  /\ Reading
  /\ \E args \in [1..1 -> NameTokens] \cup FillerArgs({1}), failAt \in FailAts :
       LET c == Ctx(failAt)
       IN Responded(serveOne(c, "USER", args, handleUSER(c, args)), Cmd("USER", args))

serveNOOP ==
  /\ Reading
  /\ \E args \in FillerArgs({}), failAt \in FailAts :
       LET c == Ctx(failAt)
       IN Responded(serveOne(c, "NOOP", args, handleNOOP(c, args)), Cmd("NOOP", args))

serveSTAT ==
  /\ Reading
  /\ \E args \in FillerArgs({}), failAt \in FailAts :
       LET c == Ctx(failAt)
       IN Responded(serveOne(c, "STAT", args, handleSTAT(c, args)), Cmd("STAT", args))

serveRSET ==
  /\ Reading
  /\ \E args \in FillerArgs({}), failAt \in FailAts :
       LET c == Ctx(failAt)
       IN Responded(serveOne(c, "RSET", args, handleRSET(c, args)), Cmd("RSET", args))

serveDELE ==
  /\ Reading
  /\ \E args \in [1..1 -> Tokens] \cup FillerArgs({1}), failAt \in FailAts :
       LET c == Ctx(failAt)
       IN Responded(serveOne(c, "DELE", args, handleDELE(c, args)), Cmd("DELE", args))

serveLIST ==
  /\ Reading
  /\ \E args \in [1..1 -> Tokens] \cup FillerArgs({1}), failAt \in FailAts :
       LET c == Ctx(failAt)
       IN Responded(serveOne(c, "LIST", args, handleLIST(c, args)), Cmd("LIST", args))

(***************************************************************************)
(* What the backend may answer.                                            *)
(***************************************************************************)
CountResults == [err : {Nil}, val : 0..MaxMsgs] \cup [err : BackendErrors, val : {0}]

SizeResults(i) == [err : {Nil}, val : SizeValues(i)] \cup [err : BackendErrors, val : {0}]

\* one answer of GetMessageSize for each ordinal
SizeAnswers == {z \in [1..MaxMsgs -> UNION {SizeResults(i) : i \in 1..MaxMsgs}] :
                  \A i \in 1..MaxMsgs : z[i] \in SizeResults(i)}

IdResults == [err : {Nil}, val : UidValues] \cup [err : BackendErrors, val : {""}]

\* the orders in which ranging over a map may deliver its keys
KeyOrders(S) ==
  {q \in [1..Cardinality(S) -> S] : \A i, j \in 1..Cardinality(S) : i /= j => q[i] /= q[j]}

\* what the backend may do while a command is served: the outcome of the
\* authentication, of the lock, of the fetches, of DeleteMessages, the reader
\* and the identifiers it hands out, the order of the keys of markedDeleted
NoEnv ==
  [authR |-> Nil, lockR |-> Nil, countR |-> [err |-> Nil, val |-> 0], sizeR |-> <<>>,
   delMsg |-> <<>>, delR |-> Nil, rd |-> NoReader, idR |-> <<>>]

SignInEnvs ==
  {[NoEnv EXCEPT !.authR = a, !.lockR = l, !.countR = n, !.sizeR = z] :
     a \in Outcomes, l \in Outcomes, n \in CountResults,
     z \in SizeAnswers}

\* the environments that matter to an accepted command; one for a rejected one
EnvsFor(command, args, envs) == IF Accepted(command, args) THEN envs ELSE {NoEnv}

servePASS ==
  /\ Reading
  /\ \E args \in [1..1 -> NameTokens] \cup FillerArgs({1}), failAt \in FailAts :
       \E e \in EnvsFor("PASS", args, SignInEnvs) :
         LET c == Ctx(failAt)
         IN Responded(serveOne(c, "PASS", args,
                               handlePASS(c, args, e.authR, e.lockR, e.countR, e.sizeR)),
                      Cmd("PASS", args))

serveAPOP ==
  /\ Reading
  /\ \E args \in {<<"x", "x">>} \cup FillerArgs({2}), failAt \in FailAts :
       \E e \in EnvsFor("APOP", args, SignInEnvs) :
         LET c == Ctx(failAt)
         IN Responded(serveOne(c, "APOP", args,
                               handleAPOP(c, args, e.authR, e.lockR, e.countR, e.sizeR)),
                      Cmd("APOP", args))

serveQUIT ==
  /\ Reading
  /\ \E args \in FillerArgs({}), failAt \in FailAts :
       \E e \in EnvsFor("QUIT", args,
                        {[NoEnv EXCEPT !.delMsg = q, !.delR = r] :
                           q \in KeyOrders(markedDeleted), r \in Outcomes}) :
         LET c == Ctx(failAt)
         IN Responded(serveOne(c, "QUIT", args, handleQUIT(c, args, e.delMsg, e.delR)),
                      Cmd("QUIT", args))

serveRETR ==
  /\ Reading
  /\ \E args \in [1..1 -> Tokens] \cup FillerArgs({1}), failAt \in FailAts :
       \E e \in EnvsFor("RETR", args, {[NoEnv EXCEPT !.rd = r] : r \in ReaderResults}) :
         LET c == Ctx(failAt)
         IN Responded(serveOne(c, "RETR", args, handleRETR(c, args, e.rd)),
                      CmdRd("RETR", args, e.rd))

serveTOP ==
  /\ Reading
  /\ \E args \in [1..2 -> Tokens] \cup FillerArgs({2}), failAt \in FailAts :
       \E e \in EnvsFor("TOP", args, {[NoEnv EXCEPT !.rd = r] : r \in ReaderResults}) :
         LET c == Ctx(failAt)
         IN Responded(serveOne(c, "TOP", args, handleTOP(c, args, e.rd)),
                      CmdRd("TOP", args, e.rd))

serveUIDL ==
  /\ Reading
  /\ \E args \in [1..1 -> Tokens] \cup FillerArgs({1}), failAt \in FailAts :
       \E e \in EnvsFor("UIDL", args,
                        {[NoEnv EXCEPT !.idR = r] :
                           r \in [1..Cardinality(DOMAIN msgSizes) -> IdResults]}) :
         LET c == Ctx(failAt)
         IN Responded(serveOne(c, "UIDL", args, handleUIDL(c, args, e.idR)),
                      Cmd("UIDL", args))

Next ==
  \/ serve
  \/ serveLoop
  \/ serveOneTerminated
  \/ serveOneReadError
  \/ serveOneUnknown
  \/ serveUSER
  \/ servePASS
  \/ serveAPOP
  \/ serveSTAT
  \/ serveLIST
  \/ serveUIDL
  \/ serveRETR
  \/ serveTOP
  \/ serveDELE
  \/ serveRSET
  \/ serveNOOP
  \/ serveQUIT

Spec == Init /\ [][Next]_vars

TypeOK ==
  /\ state \in {stateAuthorization, stateTransaction, stateUpdate, stateTerminateConnection}
  /\ pc \in {"start", "read", "responded", "done"}
  /\ markedDeleted \subseteq 1..MaxMsgs
  /\ DOMAIN msgSizes \subseteq 1..MaxMsgs

(***************************************************************************)
(* A Server with several sessions on one maildrop.  Each accepted          *)
(* connection gets a session that runs the same serve, serveOne, handlers, *)
(* handleError and unlock as above, on a connection that takes every       *)
(* write.  The backend keeps one lock for the maildrop: LockMaildrop fails *)
(* while it is held, UnlockMaildrop clears it; the maildrop is empty.      *)
(***************************************************************************)
\* os.Getpid() of the server process
Pid == 1

\* Server.Hostname
Hostname == "h"

\* getBanner: Sprintf("<%d.%d@%s>", pid, seconds of the clock, hostname)
getBanner(pid, unix, hostname) == <<"<", pid, ".", unix, "@", hostname, ">">>

\* the session of connection j as a command meets it
SessCtx(j) ==
  [state |-> sessions[j].state, username |-> sessions[j].username,
   markedDeleted |-> {}, msgSizes |-> <<>>, up |-> TRUE, apop |-> apop,
   failAt |-> 0, written |-> 0, out |-> <<>>, calls |-> <<>>,
   handled |-> FALSE, herr |-> Nil]

\* what LockMaildrop returns
LockResults == IF maildropLocked THEN BackendErrors ELSE {Nil}

\* the lock after the backend calls cs
LockAfter(cs) ==
  IF CountCalls(cs, "UnlockMaildrop", Outcomes) > 0 THEN FALSE
  ELSE IF CountCalls(cs, "LockMaildrop", {Nil}) > 0 THEN TRUE
  ELSE maildropLocked

\* session j has run to the session c
SessFinish(j, c, nextPc, banner) ==
  /\ sessions' = [sessions EXCEPT ![j] = [pc |-> nextPc, state |-> c.state,
                                          username |-> c.username, banner |-> banner]]
  /\ maildropLocked' = LockAfter(c.calls)
  /\ now' = now
  /\ UNCHANGED sessionVars

SessReading(j) ==
  sessions[j].pc = "read" /\ sessions[j].state /= stateTerminateConnection

\* serveOne of session j has returned true
SessResponded(j, res) == SessFinish(j, res.c, "read", sessions[j].banner)

\* serve of session j returns: the deferred unlock runs
SessReturned(j, c) == SessFinish(j, unlock(c, Nil), "done", sessions[j].banner)

\* Server.Serve accepts a connection and starts serve: banner and greeting
Accept ==
  \E j \in 1..MaxSessions, bannerR \in Outcomes :
    /\ sessions[j].pc = "idle"
    /\ LET banner == IF apop THEN getBanner(Pid, now, Hostname) ELSE NoBanner
           c0 == SessCtx(j)
           c1 == IF apop THEN Call(c0, "SetBanner", <<banner>>, bannerR) ELSE c0
           w == respondOK(c1, "POP3 server ready", <<>>, banner)
       IN IF apop /\ bannerR /= Nil
          THEN SessFinish(j, unlock(HandleSessionError(c1, bannerR), Nil), "done", banner)
          ELSE SessFinish(j, w.c, "read", banner)

\* a second passes
Tick ==
  /\ now < MaxClock
  /\ now' = now + 1
  /\ UNCHANGED <<sessions, maildropLocked>>
  /\ UNCHANGED sessionVars

SessUSER ==
  \E j \in 1..MaxSessions :
    /\ SessReading(j)
    /\ LET c == SessCtx(j)
       IN SessResponded(j, serveOne(c, "USER", <<"x">>, handleUSER(c, <<"x">>)))

SessPASS ==
  \E j \in 1..MaxSessions, authR \in Outcomes, lockR \in LockResults,
     countR \in [err : Outcomes, val : {0}] :
    /\ SessReading(j)
    /\ LET c == SessCtx(j)
       IN SessResponded(j, serveOne(c, "PASS", <<"x">>,
                                    handlePASS(c, <<"x">>, authR, lockR, countR, <<>>)))

SessAPOP ==
  \E j \in 1..MaxSessions, authR \in Outcomes, lockR \in LockResults,
     countR \in [err : Outcomes, val : {0}] :
    /\ SessReading(j)
    /\ LET c == SessCtx(j)
       IN SessResponded(j, serveOne(c, "APOP", <<"x", "x">>,
                                    handleAPOP(c, <<"x", "x">>, authR, lockR, countR, <<>>)))

SessQUIT ==
  \E j \in 1..MaxSessions, delR \in Outcomes :
    /\ SessReading(j)
    /\ LET c == SessCtx(j)
       IN SessResponded(j, serveOne(c, "QUIT", <<>>, handleQUIT(c, <<>>, <<>>, delR)))

\* the read of session j fails: deadline passed, connection lost
SessReadError ==
  \E j \in 1..MaxSessions :
    /\ SessReading(j)
    /\ SessReturned(j, handleError(SessCtx(j), OtherError("deadline"), FALSE).c)

\* serveOne of session j finds the session terminated
SessTerminated ==
  \E j \in 1..MaxSessions :
    /\ sessions[j].pc = "read"
    /\ sessions[j].state = stateTerminateConnection
    /\ SessReturned(j, SessCtx(j))

NextServer ==
  \/ Accept
  \/ Tick
  \/ SessUSER
  \/ SessPASS
  \/ SessAPOP
  \/ SessQUIT
  \/ SessReadError
  \/ SessTerminated

SpecServer == Init /\ [][NextServer]_vars

(***************************************************************************)
(* Properties.                                                             *)
(***************************************************************************)
TransactionVerbs == {"STAT", "LIST", "UIDL", "RETR", "TOP", "DELE", "RSET", "NOOP"}

\* a command has been served and its observation is in last, out and calls
Served(verb) == pc = "responded" /\ last.verb = verb

HasLine(o, tag) == \E i \in 1..Len(o) : o[i].tag = tag

Called(cs, name) == \E i \in 1..Len(cs) : cs[i].name = name

\* the command met the Transaction state with an acceptable argument count
InTransaction(arities) ==
  last.stateBefore = stateTransaction /\ Len(last.args) \in arities

\* the ordinal a single-message command names, 0 when it names none
Ordinal == IF Len(last.args) >= 1 THEN ParseUint(last.args[1]).val ELSE 0

\* C1: none of STAT, LIST, UIDL, RETR, TOP, DELE, RSET, NOOP is answered with
\* +OK unless an earlier PASS or APOP of the session was answered with +OK.
C1_NoTransactionCommandBeforeSignIn ==
  (pc = "responded" /\ last.verb \in TransactionVerbs /\ HasLine(out, "+OK")) => signedIn

\* C2: a QUIT accepted in Transaction makes the one DeleteMessages call of the
\* session, and its argument lists each ordinal marked deleted when QUIT was
\* received exactly once and nothing else.
C2_QuitDeletesMarkedOnce ==
  /\ deleteCount <= 1
  /\ state = stateUpdate => deleteCount = 1
  /\ (Served("QUIT") /\ InTransaction({0})) =>
       /\ deleteCount = 1
       /\ CountCalls(calls, "DeleteMessages", Outcomes) = 1
       /\ \A i \in 1..Len(calls) :
            calls[i].name = "DeleteMessages" =>
              /\ Len(calls[i].arg) = Cardinality(last.delBefore)
              /\ {calls[i].arg[j] : j \in 1..Len(calls[i].arg)} = last.delBefore

C2_Witness ==
  /\ Served("QUIT") /\ InTransaction({0})
  /\ Cardinality(last.delBefore) = 2
  /\ Called(calls, "DeleteMessages")

\* C3: after a QUIT accepted in Transaction the session is Terminated, and it
\* never waits for a line in Update, whatever DeleteMessages returned.
C3_QuitAlwaysTerminates ==
  /\ (Served("QUIT") /\ InTransaction({0})) => state = stateTerminateConnection
  /\ pc = "read" => state /= stateUpdate

\* C4: in a session whose LockMaildrop succeeded, UnlockMaildrop is called
\* exactly once, when serve returns and not before, on every exit path.
C4_UnlockExactlyOnce ==
  /\ unlockCount <= 1
  /\ (lockOk >= 1 /\ pc = "done") => unlockCount = 1
  /\ (lockOk >= 1 /\ pc /= "done") => unlockCount = 0

C4_Witness ==
  /\ pc = "done" /\ lockOk = 1 /\ unlockCount = 1
  /\ ~signedIn
  /\ last.verb = "-exit"

\* C5: DeleteMessages is called only while a QUIT received in Transaction is
\* handled; DELE calls no backend method that touches the maildrop, and a
\* session that leaves Transaction by an error has called no DeleteMessages.
C5_DeletionDeferred ==
  /\ Called(calls, "DeleteMessages") =>
       (last.verb = "QUIT" /\ last.stateBefore = stateTransaction)
  /\ last.verb = "DELE" =>
       \A i \in 1..Len(calls) : calls[i].name = "HandleSessionError"
  /\ deleteCount > 0 => state \in {stateUpdate, stateTerminateConnection}
  /\ (pc = "done" /\ last.verb = "-read error" /\ last.stateBefore = stateTransaction) =>
       deleteCount = 0

C5_Witness ==
  /\ pc = "done" /\ last.verb = "-read error"
  /\ last.stateBefore = stateTransaction
  /\ last.delBefore /= {}
  /\ deleteCount = 0

\* C6: while ordinal n is deleted (DELE n answered +OK, no RSET since), each
\* of LIST n, UIDL n, RETR n, TOP n k and DELE n gets one -ERR line and no
\* +OK, calls neither GetMessageID nor GetMessageReader, leaves the deleted
\* set as it was and leaves the session in Transaction.
C6_DeletedOrdinalRejected ==
  (/\ pc = "responded"
   /\ last.verb \in {"LIST", "UIDL", "RETR", "TOP", "DELE"}
   /\ InTransaction({IF last.verb = "TOP" THEN 2 ELSE 1})
   /\ Ordinal \in last.histBefore) =>
     /\ \A i \in 1..Len(calls) : calls[i].name = "HandleSessionError"
     /\ markedDeleted = last.delBefore
     /\ ~HasLine(out, "+OK")
     /\ connUp => (Len(out) = 1 /\ out[1].tag = "-ERR" /\ state = stateTransaction)
     /\ ~connUp => out = <<>>

C6_Witness ==
  /\ Served("TOP") /\ InTransaction({2})
  /\ Ordinal \in last.histBefore
  /\ Len(out) = 1 /\ out[1].tag = "-ERR"
  /\ state = stateTransaction

\* C7: STAT reports the sign-in message count minus the number of distinct
\* ordinals marked deleted, and the sum of the snapshot sizes of the
\* ordinals not marked deleted.
C7_StatReportsVisible ==
  (Served("STAT") /\ InTransaction({0})) =>
     /\ connUp => AnsweredOK(out)
     /\ AnsweredOK(out) =>
          /\ out[1].nums[1] = Cardinality(DOMAIN msgSizes) - Cardinality(hDeleted)
          /\ out[1].nums[2] = SumSizes(msgSizes, DOMAIN msgSizes \ hDeleted)
          /\ signedIn =>
               /\ out[1].nums[1] = signInStat[1] - Cardinality(hDeleted)
               /\ out[1].nums[2] = signInStat[2] - SumSizes(msgSizes, hDeleted)

C7_Witness ==
  /\ Served("STAT") /\ InTransaction({0})
  /\ signedIn /\ AnsweredOK(out)
  /\ signInStat[1] = 2
  /\ Cardinality(hDeleted) = 1

\* C8: RSET empties the deleted set and reports the count and size reported
\* at sign-in, and so does a STAT that follows it; LIST n, RETR n and DELE n
\* of an ordinal deleted before the RSET are accepted again, and a QUIT that
\* follows passes the empty list to DeleteMessages.
C8_RsetRestores ==
  /\ (Served("RSET") /\ InTransaction({0})) =>
       /\ markedDeleted = {}
       /\ connUp => AnsweredOK(out)
       /\ (AnsweredOK(out) /\ signedIn) => out[1].nums = signInStat
  /\ (pc = "responded" /\ prev.rset) =>
       /\ (last.verb = "STAT" /\ Len(last.args) = 0 /\ AnsweredOK(out) /\ signedIn) =>
            out[1].nums = signInStat
       /\ (last.verb \in {"LIST", "RETR", "DELE"} /\ Len(last.args) = 1
             /\ Ordinal \in prev.cleared) =>
            /\ out /= <<>> => out[1].tag = "+OK"
            /\ connUp => out /= <<>>
       /\ (last.verb = "QUIT" /\ Len(last.args) = 0) =>
            /\ Called(calls, "DeleteMessages")
            /\ \A i \in 1..Len(calls) :
                 calls[i].name = "DeleteMessages" => calls[i].arg = <<>>

C8_Witness ==
  /\ pc = "responded" /\ prev.rset
  /\ Cardinality(prev.cleared) = 2
  /\ last.verb = "QUIT" /\ Len(last.args) = 0
  /\ Called(calls, "DeleteMessages")

\* the content lines of a reply, as they are on the wire
DataTxt(o) ==
  LET d == SelectSeq(o, LAMBDA l : l.tag = "data") IN [i \in 1..Len(d) |-> d[i].txt]

StuffAll(lines) == [i \in 1..Len(lines) |-> Stuff(lines[i])]

\* TOP got a reader from the backend that neither fails to read nor to close
TopServed ==
  /\ Served("TOP") /\ InTransaction({2})
  /\ CountCalls(calls, "GetMessageReader", {Nil}) = 1
  /\ ~last.rd.fail /\ last.rd.closeErr = Nil
  /\ connUp

TopLines == ParseUint(last.args[2]).val

\* C9: TOP n k with k above the number of lines of the message emits the
\* whole message in one terminated block and is no error: no -ERR, no
\* HandleSessionError, the session stays in Transaction.
C9_TopPastEndIsNoError ==
  (TopServed /\ TopLines > Len(last.rd.lines)) =>
     /\ state = stateTransaction
     /\ ~HasLine(out, "-ERR")
     /\ ~Called(calls, "HandleSessionError")
     /\ DataTxt(out) = StuffAll(last.rd.lines)
     /\ out[Len(out)].tag = "."

\* the lines before the first empty line of a content
HeaderLen(lines) ==
  IF \E i \in 1..Len(lines) : lines[i] = <<>>
  THEN (CHOOSE i \in 1..Len(lines) :
          lines[i] = <<>> /\ \A j \in 1..(i - 1) : lines[j] /= <<>>) - 1
  ELSE Len(lines)

Min(a, b) == IF a < b THEN a ELSE b

\* header, separator and the first k lines of the body
TopExpected(lines, k) == SubSeq(lines, 1, Min(Len(lines), HeaderLen(lines) + 1 + k))

\* C10: TOP n k emits the header of the message followed by the first k
\* lines of its body, all of the body when it has fewer; TOP n 0 emits the
\* header and no body line.
C10_TopHeaderThenBodyLines ==
  TopServed =>
    \/ DataTxt(out) = StuffAll(TopExpected(last.rd.lines, TopLines))
    \/ /\ TopLines = 0
       /\ DataTxt(out) = StuffAll(SubSeq(last.rd.lines, 1, HeaderLen(last.rd.lines)))

(***************************************************************************)
(* Acceptance, status lines and errors.                                    *)
(***************************************************************************)
IsStatus(l) == l.tag \in {"+OK", "-ERR"}

StatusLines(o) == Cardinality({i \in 1..Len(o) : IsStatus(o[i])})

CountNamed(cs, name) == Cardinality({i \in 1..Len(cs) : cs[i].name = name})

OnlySessionErrors(cs) == \A i \in 1..Len(cs) : cs[i].name = "HandleSessionError"

\* the command served last ended in a fatal error: handleError got an error
\* that is not reportable, or could not write the -ERR line of one that is
Fatal == herr /= Nil /\ (~isReportable(herr) \/ ~connUp)

\* the error that was fatal
FatalErr == IF isReportable(herr) THEN OtherError("write") ELSE herr

\* C11: CAPA without arguments in Transaction is answered with +OK and a
\* block that ends with the terminating line, calls no backend method and
\* leaves the state, the snapshot and the deleted set as they were.
C11_CapaAccepted ==
  (Served("CAPA") /\ InTransaction({0}) /\ connUp) =>
     /\ AnsweredOK(out)
     /\ out[Len(out)].tag = "."
     /\ calls = <<>>
     /\ state = stateTransaction
     /\ markedDeleted = last.delBefore

\* C12: a command that does not end in a fatal error gets exactly one status
\* line, +OK or -ERR, and it is the first line of the response.
C12_OneStatusLineFirst ==
  (pc = "responded" /\ ~Fatal /\ ~Called(calls, "HandleSessionError")) =>
     /\ StatusLines(out) = 1
     /\ IsStatus(out[1])

\* the line served last has an unknown verb, a verb illegal in the state it
\* met, or a wrong number of arguments
Rejected ==
  /\ pc \in {"responded", "done"}
  /\ last.verb \notin {"-greeting", "-exit", "-read error", "-"}
  /\ \/ last.verb \notin DOMAIN validators
     \/ last.stateBefore \notin validators[last.verb].allowedStates
     \/ Len(last.args) \notin validators[last.verb].allowedArities

\* C13: a rejected line calls no handler and no backend method, leaves
\* username, snapshot and deleted set unchanged, and, its -ERR line written,
\* is answered with that one line and leaves the state unchanged and the
\* session reading the next line.
C13_RejectedLineHasNoEffect ==
  [][(pc = "read" /\ Rejected') =>
       /\ ~handled'
       /\ OnlySessionErrors(calls')
       /\ username' = username
       /\ msgSizes' = msgSizes
       /\ markedDeleted' = markedDeleted
       /\ connUp' => /\ Len(out') = 1 /\ out'[1].tag = "-ERR"
                     /\ calls' = <<>>
                     /\ state' = state
                     /\ pc' = "responded"
       /\ ~connUp' => out' = <<>>]_vars

C13_Witness ==
  /\ Rejected /\ pc = "responded"
  /\ last.verb = "DELE" /\ Len(last.args) = 0
  /\ last.stateBefore = stateTransaction /\ state = stateTransaction
  /\ Len(out) = 1 /\ out[1].tag = "-ERR"
  /\ markedDeleted /= {}

\* C14: when the read of the next line fails on the deadline, no line is
\* written, HandleSessionError is called once with that error, and serve
\* returns: nothing more is read and the connection is closed.
C14_DeadlineEndsSessionSilently ==
  [][(pc = "read" /\ state /= stateTerminateConnection
        /\ herr' = OtherError("deadline")) =>
       /\ out' = <<>>
       /\ CountCalls(calls', "HandleSessionError", {OtherError("deadline")}) = 1
       /\ calls'[1] = CallRec("HandleSessionError", <<>>, OtherError("deadline"))
       /\ state' = stateTerminateConnection
       /\ pc' = "done"]_vars

C14_Witness ==
  /\ pc = "done" /\ last.verb = "-read error"
  /\ herr = OtherError("deadline")
  /\ last.stateBefore = stateTransaction
  /\ out = <<>>

\* C15: once GetMessageCount or GetMessageSize has failed, the session is
\* terminated: it serves no further command.
C15_FetchFailureTerminates ==
  fetchFailed => (pc = "done" \/ state = stateTerminateConnection)

\* C16: a PASS or APOP whose LockMaildrop fails leaves the state
\* Authorization and the snapshot empty and makes no snapshot fetch.
C16_LockFailureStaysAuthorization ==
  (pc = "responded" /\ last.verb \in {"PASS", "APOP"}
     /\ CountCalls(calls, "LockMaildrop", BackendErrors) > 0) =>
     /\ state = stateAuthorization
     /\ msgSizes = <<>>
     /\ ~Called(calls, "GetMessageCount")
     /\ ~Called(calls, "GetMessageSize")

\* C17: a PASS whose AuthenticatePASS fails is answered with a -ERR line,
\* leaves the session in Authorization, does not call LockMaildrop, and the
\* session reads on.
C17_PassFailureIsReported ==
  (Served("PASS") /\ connUp
     /\ CountCalls(calls, "AuthenticatePASS", BackendErrors) > 0) =>
     /\ Len(out) = 1 /\ out[1].tag = "-ERR"
     /\ state = stateAuthorization
     /\ ~Called(calls, "LockMaildrop")

\* C18: a command that ends in a reportable error whose -ERR line is
\* written leaves the state as it met it.
C18_ReportableErrorKeepsState ==
  (pc = "responded" /\ herr /= Nil /\ isReportable(herr) /\ connUp) =>
     state = last.stateBefore

\* serve returned because SetBanner or the write of the greeting failed
GreetingFailed == pc = "done" /\ last.verb = "-greeting"

\* a Terminated session dispatches nothing: the next serveOne returns false
NoDispatchOnceTerminated ==
  (state = stateTerminateConnection /\ pc /= "done") =>
     /\ state' = stateTerminateConnection
     /\ ~handled'
     /\ out' = <<>>
     /\ pc = "read" => pc' = "done"

\* C19 as claimed: every fatal error, a failed SetBanner or greeting included,
\* sets the state to Terminated, is passed to HandleSessionError exactly once
\* and is followed by no dispatch.
C19_FatalErrorTerminatesOnce ==
  /\ [](Fatal => /\ state = stateTerminateConnection
                 /\ CountCalls(calls, "HandleSessionError", {FatalErr}) = 1)
  /\ [](GreetingFailed => /\ state = stateTerminateConnection
                          /\ CountNamed(calls, "HandleSessionError") = 1)
  /\ [][NoDispatchOnceTerminated]_vars

\* C19 amended: a fatal error met by handleError sets the state to
\* Terminated and is passed to HandleSessionError, once, or twice when it is
\* a write error that the deferred Close of a block reports too; a failed
\* SetBanner or greeting is passed to HandleSessionError once and serve
\* returns with the state still Authorization; no dispatch follows.
C19_FatalErrorEndsSession ==
  /\ [](Fatal => /\ state = stateTerminateConnection
                 /\ CountCalls(calls, "HandleSessionError", {FatalErr}) \in {1, 2}
                 /\ FatalErr /= OtherError("write") =>
                      CountCalls(calls, "HandleSessionError", {FatalErr}) = 1)
  /\ [](GreetingFailed => /\ state = stateAuthorization
                          /\ CountNamed(calls, "HandleSessionError") = 1
                          /\ ~Called(calls, "UnlockMaildrop"))
  /\ [][NoDispatchOnceTerminated]_vars

C19_Witness ==
  /\ pc = "responded" /\ Fatal
  /\ last.verb = "RETR"
  /\ CountCalls(calls, "HandleSessionError", {OtherError("write")}) = 2
  /\ state = stateTerminateConnection

\* C20: once the session is in Update it never returns to Authorization or
\* Transaction, no handler is called for a line read in Update and no such
\* line is answered with +OK; the QUIT that entered Update writes no +OK
\* but its goodbye.
C20_UpdateIsOneWay ==
  /\ []((pc = "responded" /\ last.stateBefore = stateUpdate) =>
          (~handled /\ ~HasLine(out, "+OK") /\ OnlySessionErrors(calls)))
  /\ []((Served("QUIT") /\ InTransaction({0})) =>
          \A i \in 1..Len(out) :
            out[i].tag = "+OK" => (out[i].msg = "signing off" /\ i = 1 /\ Len(out) = 1))
  /\ [][state = stateUpdate => state' \in {stateUpdate, stateTerminateConnection}]_vars

C20_Witness ==
  /\ pc = "responded" /\ last.stateBefore = stateUpdate
  /\ last.verb = "NOOP" /\ Len(last.args) = 0
  /\ Len(out) = 1 /\ out[1].tag = "-ERR"
  /\ state = stateUpdate

(***************************************************************************)
(* QUIT, listings, readers, banner, USER and PASS, validation, ordinals.   *)
(***************************************************************************)
\* C21: a QUIT in Transaction whose DeleteMessages fails surfaces the
\* failure, by a -ERR line or by HandleSessionError, and still writes the
\* +OK goodbye.
C21_QuitFailureStillSaysGoodbye ==
  (Served("QUIT") /\ InTransaction({0}) /\ connUp
     /\ CountCalls(calls, "DeleteMessages", BackendErrors) > 0) =>
     /\ HasLine(out, "-ERR") \/ Called(calls, "HandleSessionError")
     /\ \E i \in 1..Len(out) : out[i].tag = "+OK" /\ out[i].msg = "signing off"

\* the ordinals 1..n that are not in del, ascending
VisibleSeq(n, del) == SelectSeq([i \in 1..n |-> i], LAMBDA i : i \notin del)

\* the block of LIST: a line for each visible ordinal and the terminating line
Listing(sizes, del) ==
  LET vis == VisibleSeq(Cardinality(DOMAIN sizes), del)
  IN [k \in 1..(Len(vis) + 1) |->
        IF k <= Len(vis) THEN Line("data", "", <<vis[k], sizes[vis[k]]>>, <<>>)
        ELSE Line(".", "", <<>>, <<".">>)]

\* C23: LIST without argument writes one block: a line 'ordinal size' for
\* each ordinal of the snapshot that is not marked deleted, ascending, with
\* the snapshot size, then the terminating line; it calls no backend method.
C23_ListEmitsVisibleAscending ==
  (Served("LIST") /\ InTransaction({0}) /\ connUp) =>
     /\ out = Listing(msgSizes, markedDeleted)
     /\ calls = <<>>
     /\ markedDeleted = last.delBefore

C23_Witness ==
  /\ Served("LIST") /\ InTransaction({0}) /\ connUp
  /\ Cardinality(DOMAIN msgSizes) = 2
  /\ markedDeleted = {1}
  /\ Len(out) = 2

\* C24: a reader that GetMessageReader returned is closed exactly once while
\* its command is served, after it was handed out, whatever the copy did;
\* only RETR and TOP ask for a reader.
C24_ReaderClosedOnce ==
  /\ CountNamed(calls, "Reader.Close") = CountCalls(calls, "GetMessageReader", {Nil})
  /\ CountNamed(calls, "GetMessageReader") <= 1
  /\ Called(calls, "GetMessageReader") => last.verb \in {"RETR", "TOP"}
  /\ \A i, j \in 1..Len(calls) :
       (calls[i].name = "GetMessageReader" /\ calls[j].name = "Reader.Close") => i < j

C24_Witness ==
  /\ Served("RETR") /\ InTransaction({1})
  /\ ~connUp
  /\ Len(out) = 1 /\ Len(last.rd.lines) >= 1
  /\ CountNamed(calls, "Reader.Close") = 1

\* C25: with APOP enabled SetBanner is called once in the session, first
\* thing in serve, before the greeting and before any authentication; with
\* APOP disabled it is never called, and an APOP command is answered -ERR
\* without AuthenticateAPOP, the session staying in Authorization.
C25_BannerOnceBeforeAuth ==
  /\ pc /= "start" => bannerCalls = (IF apop THEN 1 ELSE 0)
  /\ Called(calls, "SetBanner") => (last.verb = "-greeting" /\ calls[1].name = "SetBanner")
  /\ (last.verb = "-greeting" /\ apop /\ calls[1].err /= Nil) => out = <<>>
  /\ (Called(calls, "AuthenticatePASS") \/ Called(calls, "AuthenticateAPOP")) =>
       (last.verb \in {"PASS", "APOP"} /\ ~Called(calls, "SetBanner"))
  /\ (Served("APOP") /\ ~apop /\ last.stateBefore = stateAuthorization
        /\ Len(last.args) = 2) =>
       /\ ~Called(calls, "AuthenticateAPOP")
       /\ ~Called(calls, "LockMaildrop")
       /\ connUp => (Len(out) = 1 /\ out[1].tag = "-ERR" /\ state = stateAuthorization)

C25_Witness ==
  /\ Served("APOP") /\ ~apop
  /\ last.stateBefore = stateAuthorization /\ Len(last.args) = 2
  /\ Len(out) = 1 /\ out[1].tag = "-ERR"
  /\ state = stateAuthorization
  /\ bannerCalls = 0

\* C27: a PASS that finds no name stored is answered -ERR, calls neither
\* AuthenticatePASS nor LockMaildrop and leaves the session in
\* Authorization; an accepted USER calls no backend method, stores the name
\* and is answered +OK.
C27_PassNeedsUser ==
  /\ (Served("PASS") /\ last.stateBefore = stateAuthorization
        /\ Len(last.args) = 1 /\ username = "") =>
       /\ ~Called(calls, "AuthenticatePASS")
       /\ ~Called(calls, "LockMaildrop")
       /\ connUp => (Len(out) = 1 /\ out[1].tag = "-ERR" /\ state = stateAuthorization)
       /\ ~connUp => out = <<>>
  /\ (Served("USER") /\ last.stateBefore = stateAuthorization /\ Len(last.args) = 1) =>
       /\ OnlySessionErrors(calls)
       /\ username = last.args[1]
       /\ connUp => (Len(out) = 1 /\ out[1].tag = "+OK" /\ calls = <<>>
                       /\ state = stateAuthorization)

C27_Witness ==
  /\ Served("PASS") /\ last.stateBefore = stateAuthorization
  /\ Len(last.args) = 1 /\ username = ""
  /\ Len(out) = 1 /\ out[1].msg = "please provide username first"
  /\ state = stateAuthorization

\* C28: UnlockMaildrop is called only in a session whose LockMaildrop
\* returned success.
C28_UnlockOnlyAfterLock == unlockCount > 0 => lockOk > 0

\* C29: a command both illegal in the state it meets and of a wrong argument
\* count is answered with the unexpected-state error; a command that fails
\* either check runs no handler.
C29_StateCheckedBeforeArity ==
  (pc = "responded" /\ last.verb \in DOMAIN validators) =>
     LET badState == last.stateBefore \notin validators[last.verb].allowedStates
         badArity == Len(last.args) \notin validators[last.verb].allowedArities
     IN /\ (badState /\ badArity) =>
             /\ herr = errUnexpectedState
             /\ connUp => out = <<Line("-ERR", errUnexpectedState[2], <<>>, <<>>)>>
        /\ (~badState /\ badArity) => herr = errInvalidSyntax
        /\ (badState \/ badArity) => ~handled

C29_Witness ==
  /\ Served("DELE") /\ Len(last.args) = 0
  /\ last.stateBefore = stateAuthorization
  /\ Len(out) = 1 /\ out[1].msg = "unexpected state transition"
  /\ ~handled

\* C30: the keys of the snapshot are 1..|msgSizes|, markedDeleted is a
\* subset of them, the visible count is not negative and is the number of
\* ordinals not marked deleted; DELE and RSET leave the snapshot as it is.
C30_SnapshotOrdinals ==
  /\ [](/\ DOMAIN msgSizes = 1..Cardinality(DOMAIN msgSizes)
        /\ markedDeleted \subseteq DOMAIN msgSizes
        /\ getMessageCount(Ctx(0)) >= 0
        /\ getMessageCount(Ctx(0)) = Cardinality(DOMAIN msgSizes \ markedDeleted))
  /\ [][(pc = "read" /\ last'.verb \in {"DELE", "RSET"}) => msgSizes' = msgSizes]_vars

C30_Witness ==
  /\ Served("DELE") /\ AnsweredOK(out)
  /\ DOMAIN msgSizes = {1, 2}
  /\ markedDeleted = {1, 2}

\* C31: the session state only moves forward in the order Authorization,
\* Transaction, Update, Terminated: no step lowers it, a session that has
\* left Authorization never returns to it, and Terminated is never left.
C31_StateOnlyMovesForward ==
  [][/\ state' >= state
     /\ (state /= stateAuthorization => state' /= stateAuthorization)
     /\ (state = stateTerminateConnection => state' = stateTerminateConnection)]_vars

C31_Witness ==
  /\ Served("QUIT") /\ Called(calls, "DeleteMessages")
  /\ signedIn
  /\ state = stateTerminateConnection

\* C32: LockMaildrop succeeds at most once in a session; GetMessageCount and
\* GetMessageSize are called only while serving the PASS or APOP whose lock
\* succeeded, GetMessageCount once; after a successful lock no command
\* changes the snapshot of sizes.
C32_SignInOnce ==
  /\ [](/\ lockOk <= 1
        /\ (Called(calls, "GetMessageCount") \/ Called(calls, "GetMessageSize")) =>
              /\ last.verb \in {"PASS", "APOP"}
              /\ CountCalls(calls, "LockMaildrop", {Nil}) = 1
              /\ CountNamed(calls, "GetMessageCount") = 1)
  /\ [][lockOk >= 1 => msgSizes' = msgSizes]_vars

C32_Witness ==
  /\ Served("PASS") /\ calls = <<>>
  /\ state = stateTransaction
  /\ lockOk = 1 /\ signedIn
  /\ DOMAIN msgSizes /= {}

(***************************************************************************)
(* Several sessions.                                                       *)
(***************************************************************************)
\* the sessions that are in Transaction or Update
Holders ==
  {j \in 1..MaxSessions :
     sessions[j].pc = "read" /\ sessions[j].state \in {stateTransaction, stateUpdate}}

\* C22: with a backend that refuses the lock while it is held and clears it
\* on UnlockMaildrop, at most one session is in Transaction or Update.
C22_OneSessionHoldsMaildrop == Cardinality(Holders) <= 1

\* C26: two sessions of the server never get the same banner.
C26_BannerUnique ==
  \A i, j \in 1..MaxSessions :
    (i /= j /\ sessions[i].banner /= NoBanner /\ sessions[j].banner /= NoBanner) =>
       sessions[i].banner /= sessions[j].banner

====
